---- MODULE Spec2Model ----
(***************************************************************************)
(* State-machine model of the factorization job engine of SubPrimeDivide:  *)
(* the Celery task run_factorization_task (api/app/worker.py), the control *)
(* operations of JobService (api/app/services/job_service.py) and the      *)
(* control and stream routes (api/app/routes/jobs.py), over one Job row    *)
(* with its JobLog and JobResult rows.                                     *)
(*                                                                         *)
(* Granularity.  Every database commit that writes a column of the Job row *)
(* or a JobResult row is a separate step of a worker run, and so is every  *)
(* read of the persisted status (query, db.refresh).  Commits that only    *)
(* append JobLog rows (add_log) are folded into the step that follows      *)
(* them in program order; the JobLog table is kept as the number of rows   *)
(* per stage, the ids of the rows being 1..the total in commit order.      *)
(* A worker session writes, on commit, exactly the                         *)
(* attributes assigned since its last commit (SQLAlchemy unit of work);    *)
(* an attribute assigned the value the session has loaded is not written.  *)
(* Python None and the empty result of a kernel are written 0.             *)
(***************************************************************************)
EXTENDS Integers, Sequences, FiniteSets, TLC

\* ---------------------------------------------------------------- bounds
\* Celery task executions ever enqueued for the job (create_job + resumes).
MaxRuns == 2
\* Control requests (POST /jobs/{id}/control) issued against the job.
MaxControl == 2
\* Websocket streams opened on the job.
MaxStreams == 1

None == 0

\* ------------------------------------------------------ integer helpers
Min2(a, b) == IF a <= b THEN a ELSE b
Max2(a, b) == IF a >= b THEN a ELSE b
Abs(a) == IF a < 0 THEN 0 - a ELSE a

RECURSIVE gcd(_, _)
\* gmpy2.gcd
gcd(a, b) == IF b = 0 THEN Abs(a) ELSE gcd(b, a % b)

RECURSIVE powmod(_, _, _)
\* gmpy2.powmod(a, e, n), e >= 0
powmod(a, e, n) ==
    IF e = 0 THEN 1 % n
    ELSE LET h == powmod(a, e \div 2, n)
             s == (h * h) % n
         IN IF e % 2 = 1 THEN (s * (a % n)) % n ELSE s

RECURSIVE isqrt_from(_, _)
isqrt_from(n, r) == IF (r + 1) * (r + 1) > n THEN r ELSE isqrt_from(n, r + 1)

\* gmpy2.isqrt
isqrt(n) == isqrt_from(n, 0)

\* len(str(n)) for n >= 0
RECURSIVE digit_count(_)
digit_count(n) == IF n < 10 THEN 1 ELSE 1 + digit_count(n \div 10)

\* The primes as produced by the primesieve and gmpy2 libraries.
gmpy2_is_prime(n) == n >= 2 /\ \A d \in 2..isqrt(n) : n % d # 0

RECURSIVE next_prime_from(_)
next_prime_from(k) == IF gmpy2_is_prime(k) THEN k ELSE next_prime_from(k + 1)

\* primesieve Iterator.next_prime(): the least prime above the position
\* (a fresh iterator stands at 0; skipto(start) puts it at start).
next_prime(k) == next_prime_from(k + 1)

\* ------------------------------------------------------ primality oracle
small_primes == <<2, 3, 5, 7, 11, 13, 17, 19, 23, 29, 31, 37, 41, 43, 47>>

\* bpsw.miller_rabin_base2: gmpy2.is_prime(n, 1)
miller_rabin_base2(n) == gmpy2_is_prime(n)

RECURSIVE jacobi_loop(_, _, _)
jacobi_loop(a, n, res) ==
    IF a = 0 THEN (IF n = 1 THEN res ELSE 0)
    ELSE IF a % 2 = 0
         THEN jacobi_loop(a \div 2, n, IF n % 8 \in {3, 5} THEN 0 - res ELSE res)
         ELSE jacobi_loop(n % a, a, IF a % 4 = 3 /\ n % 4 = 3 THEN 0 - res ELSE res)

\* gmpy2.jacobi(a, n), n odd and positive
jacobi(a, n) == jacobi_loop(a % n, n, 1)

\* The Selfridge search of strong_lucas_test: <<"D", D>> when Jacobi(D, n) = -1
\* is found, <<"ret", b>> when the test returns b during the search.
LucasSearchLimit == 1000000

RECURSIVE selfridge_D(_, _)
selfridge_D(n, D) ==
    LET j == jacobi(D, n)
        nextD == IF D > 0 THEN 0 - (D + 2) ELSE 0 - (D - 2)
    IN IF j = 0 THEN <<"ret", Abs(D) = n>>
       ELSE IF j = 0 - 1 THEN <<"D", D>>
       ELSE IF Abs(nextD) > LucasSearchLimit
            THEN (IF isqrt(n) * isqrt(n) = n THEN <<"ret", FALSE>> ELSE <<"D", nextD>>)
            ELSE selfridge_D(n, nextD)

RECURSIVE lucas_state(_, _, _, _)
\* The loop of lucas_sequence over the bits of k below the leading one:
\* <<U, V, Q_k>> after the bits of k have been processed (k >= 1).
lucas_state(n, P, Q, k) ==
    IF k = 1 THEN <<1, P, Q>>
    ELSE LET st == lucas_state(n, P, Q, k \div 2)
             U_new == (st[1] * st[2]) % n
             V_new == (st[2] * st[2] - 2 * st[3]) % n
             Q_sq == powmod(st[3], 2, n)
             U1 == (P * U_new + V_new) % n
             V1 == (P * V_new + (P * P - 4 * Q) * U_new) % n
             U2 == IF U1 % 2 = 1 THEN U1 + n ELSE U1
             V2 == IF V1 % 2 = 1 THEN V1 + n ELSE V1
         IN IF k % 2 = 1
            THEN <<U2 \div 2, V2 \div 2, (Q_sq * Q) % n>>
            ELSE <<U_new, V_new, Q_sq>>

\* bpsw.lucas_sequence(n, P, Q, k): <<U_k mod n, V_k mod n>>
lucas_sequence(n, P, Q, k) ==
    IF k = 0 THEN <<0, 2>>
    ELSE IF k = 1 THEN <<1, P>>
    ELSE LET st == lucas_state(n, P, Q, k) IN <<st[1] % n, st[2] % n>>

RECURSIVE odd_part(_)
odd_part(d) == IF d % 2 = 0 THEN odd_part(d \div 2) ELSE d

RECURSIVE two_adic(_)
two_adic(d) == IF d % 2 = 0 THEN 1 + two_adic(d \div 2) ELSE 0

RECURSIVE pow2(_)
pow2(r) == IF r = 0 THEN 1 ELSE 2 * pow2(r - 1)

RECURSIVE lucas_V_loop(_, _, _, _, _, _)
\* for r in range(s): if V % n == 0: return True; V = V^2 - 2 Q^(d 2^r)
lucas_V_loop(n, Q, d, s, r, V) ==
    IF r >= s THEN FALSE
    ELSE IF V % n = 0 THEN TRUE
    ELSE lucas_V_loop(n, Q, d, s, r + 1,
                      (V * V - 2 * powmod(Q, d * pow2(r), n)) % n)

\* bpsw.strong_lucas_test(n)
strong_lucas_test(n) ==
    LET found == selfridge_D(n, 5)
    IN IF found[1] = "ret" THEN found[2]
       ELSE LET D == found[2]
                Q == (1 - D) \div 4
                d == odd_part(n + 1)
                s == two_adic(n + 1)
                UV == lucas_sequence(n, 1, Q, d)
            IN IF UV[1] % n = 0 THEN TRUE
               ELSE lucas_V_loop(n, Q, d, s, 0, UV[2])

InSeq(x, sq) == \E i \in 1..Len(sq) : sq[i] = x

\* is_prime_bpsw without the membership test `n in small_primes`: the
\* divisibility loop then rejects the primes of the table.
is_prime_bpsw_without_table(n) ==
    IF n < 2 THEN FALSE
    ELSE IF n = 2 THEN TRUE
    ELSE IF n % 2 = 0 THEN FALSE
    ELSE IF \E i \in 1..Len(small_primes) : n % small_primes[i] = 0 THEN FALSE
    ELSE IF ~miller_rabin_base2(n) THEN FALSE
    ELSE strong_lucas_test(n)

\* bpsw.is_prime_bpsw(n)
is_prime_bpsw(n) ==
    IF n < 2 THEN FALSE
    ELSE IF n = 2 THEN TRUE
    ELSE IF n % 2 = 0 THEN FALSE
    ELSE IF InSeq(n, small_primes) THEN TRUE
    ELSE IF \E i \in 1..Len(small_primes) : n % small_primes[i] = 0 THEN FALSE
    ELSE IF ~miller_rabin_base2(n) THEN FALSE
    ELSE strong_lucas_test(n)

\* bpsw.is_prime_fast(n) for n <= 2^64, the only n the model's integers reach
is_prime_fast(n) == IF n < 2 THEN FALSE ELSE is_prime_bpsw(n)

\* ------------------------------------------------------------- kernels
RECURSIVE trial_division_loop(_, _, _)
trial_division_loop(n, limit, prime) ==
    IF prime > limit THEN None
    ELSE IF n % prime = 0 THEN prime
    ELSE trial_division_loop(n, limit, next_prime(prime))

\* trial_division.trial_division_with_wheel(n, limit); limit = None (0) is
\* replaced by min(10^9, isqrt(n))
trial_division_with_wheel(n, limit) ==
    IF n % 2 = 0 THEN 2
    ELSE trial_division_loop(n,
                             IF limit = None THEN Min2(1000000000, isqrt(n)) ELSE limit,
                             next_prime(0))

RECURSIVE brent_loop(_, _, _, _, _, _, _)
\* The for loop of pollard_rho with `left` iterations to go: the d that ends
\* it (a divisor of n other than 1, n included), or None on an exhausted budget.
brent_loop(n, c, x, y, power, lam, left) ==
    IF left = 0 THEN None
    ELSE LET y1 == IF power = lam THEN x ELSE y
             power1 == IF power = lam THEN power * 2 ELSE power
             lam0 == IF power = lam THEN 0 ELSE lam
             x1 == (powmod(x, 2, n) + c) % n
             d == gcd(Abs(x1 - y1), n)
         IN IF d # 1 THEN d
            ELSE brent_loop(n, c, x1, y1, power1, lam0 + 1, left - 1)

RECURSIVE pollard_rho(_, _)
\* pollard_rho.pollard_rho(n, max_iterations): the set of values it can
\* return over the random choices of x and c, restarts included.
pollard_rho(n, max_iterations) ==
    IF n % 2 = 0 THEN {2}
    ELSE IF gmpy2_is_prime(n) THEN {None}
    ELSE LET ds == {brent_loop(n, c, x, x, 1, 1, max_iterations) :
                        x \in 2..(n - 2), c \in 1..(n - 1)}
         IN (ds \ {n}) \cup
            (IF n \in ds THEN pollard_rho(n, max_iterations \div 2) ELSE {})

RECURSIVE order_from(_, _, _, _)
order_from(a, n, r, cur) ==
    IF cur = 1 THEN r ELSE order_from(a, n, r + 1, (cur * a) % n)

\* The multiplicative order of a modulo n, gcd(a, n) = 1.
mult_order(a, n) == order_from(a % n, n, 1, a % n)

\* shor_classical.shor_classical_post_processing(a, r, n)
shor_classical_post_processing(a, r, n) ==
    IF r % 2 # 0 THEN None
    ELSE LET ar2 == powmod(a, r \div 2, n)
             g1 == gcd(ar2 - 1, n)
             g2 == gcd(ar2 + 1, n)
         IN IF ar2 = 1 \/ ar2 = n - 1 THEN None
            ELSE IF 1 < g1 /\ g1 < n THEN g1
            ELSE IF 1 < g2 /\ g2 < n THEN g2
            ELSE None

\* shor_classical.shor_classical_one_shot(n, B, a) for n <= B: the smooth
\* exponent M = build_smooth_exponent(B) is then a multiple of every order
\* modulo n, so a^M = 1 (mod n) for a coprime to n, the p-1 style gcd is
\* gcd(0, n) = n, and find_order_classical squeezes M down to the order of a.
\* The value is <<factor, diagnostics['method']>>.
shor_classical_one_shot(n, B, a) ==
    LET g == gcd(a, n)
        factor == shor_classical_post_processing(a, mult_order(a, n), n)
    IN IF g # 1 /\ g # n THEN <<g, "gcd_lucky">>
       ELSE IF factor # None THEN <<factor, "shor_post_processing">>
       ELSE <<None, "shor_post_processing_failed">>

\* shor_classical.shor_classical_multi_attempt(n, [B], max_attempts_per_B):
\* the set of values it can return over its random bases a in [2, n-2]
\* (the first base that yields a factor decides; None when every base fails).
shor_classical_multi_attempt(n, B) ==
    {shor_classical_one_shot(n, B, a) : a \in 2..(n - 2)}

\* ecm_wrapper.ecm_factor(n, B1, curves): the external ecm binary either is
\* absent, times out or reports nothing (None), or prints a factor of n;
\* the wrapper keeps a reported f only if 1 < f < n.
ecm_factor(n) ==
    IF gmpy2_is_prime(n) THEN {None}
    ELSE IF n % 2 = 0 THEN {2}
    ELSE {None} \cup {f \in 2..(n - 1) : n % f = 0}

\* ----------------------------------------------------- equation solver
RECURSIVE pow10(_)
pow10(e) == IF e = 0 THEN 1 ELSE 10 * pow10(e - 1)

\* int(x * 0.7) in IEEE double arithmetic: floor(7x/10), one less where the
\* product rounds below an integer (the x below 2000 where it does).
FloatShort07 == {90, 170, 180, 330, 340, 350, 360, 650, 660, 670, 680, 690,
                 700, 710, 720, 730, 1290, 1300, 1310, 1320, 1330, 1340,
                 1350, 1360, 1370, 1380, 1390, 1400, 1410, 1420, 1430, 1440,
                 1450, 1460}

int_times_07(x) ==
    IF x <= 0 THEN 0
    ELSE (7 * x) \div 10 - (IF x \in FloatShort07 THEN 1 ELSE 0)

NewtonMaxIterations == 100

\* One pass of the for loop of find_x_when_y_equals_one from x:
\* <<x after the pass, whether the loop breaks>>
newton_step(pnp, x) ==
    LET f_x == x * x * x - pnp * x * x + pnp * pnp
        f_prime_x == 3 * x * x - 2 * pnp * x
        x_new == x - (f_x \div f_prime_x)
    IN IF f_prime_x = 0 THEN <<x, TRUE>>
       ELSE <<x_new, Abs(x_new - x) < Max2(1, x \div 1000000)>>

\* the loop with `left` passes to go, as a function so that each pass is
\* evaluated before the next one starts
newton_loop[pnp \in Int, st \in Int \X BOOLEAN, left \in Nat] ==
    IF left = 0 \/ st[2] THEN st[1]
    ELSE newton_loop[pnp, newton_step(pnp, st[1]), left - 1]

\* SemiPrimeEquationSolver.find_x_when_y_equals_one
find_x_when_y_equals_one(pnp) ==
    newton_loop[pnp, <<pow10((2 * (digit_count(pnp) - 1)) \div 3), FALSE>>, NewtonMaxIterations]

\* SemiPrimeEquationSolver.find_initial_bounds: <<lower, upper>>
find_initial_bounds(pnp) ==
    LET sqrt_pnp == isqrt(pnp)
        primary == int_times_07(find_x_when_y_equals_one(pnp))
        fallback == pow10((35 * digit_count(pnp)) \div 100)
        lower == IF primary > 2 /\ primary < sqrt_pnp THEN primary ELSE fallback
    IN <<Min2(Max2(2, lower), sqrt_pnp - 1), sqrt_pnp>>

\* SemiPrimeEquationSolver.compute_y_from_x
compute_y_from_x(pnp, x) == ((pnp * pnp) \div x + x * x) \div pnp

\* SemiPrimeEquationSolver.verify_inverse_relationship
verify_inverse_relationship(pnp, x1, x2) ==
    IF x1 >= x2 THEN FALSE
    ELSE compute_y_from_x(pnp, x1) > compute_y_from_x(pnp, x2)

\* SemiPrimeEquationSolver.verify_decreasing_region
verify_decreasing_region(pnp, x) == x * x * x < (pnp * pnp) \div 2

\* ------------------------------------------------------------ requests
\* JobCreate bodies submitted to POST /jobs.  n is the decimal value of the
\* string n, malformed marks a string int() rejects; a bound of None (0) is
\* an absent lower_bound / upper_bound.  The policy fields are those of
\* AlgorithmPolicy that the worker reads.
DefaultPolicy ==
    [use_trial_division |-> TRUE, trial_division_limit |-> 10000000,
     use_pollard_rho |-> TRUE, pollard_rho_iterations |-> 1000000,
     use_ecm |-> TRUE]

\* A policy that skips trial division and gives Pollard rho a budget of one
\* iteration, so that every later stage can be entered.
LateStages ==
    [use_trial_division |-> FALSE, trial_division_limit |-> 10000000,
     use_pollard_rho |-> TRUE, pollard_rho_iterations |-> 1,
     use_ecm |-> TRUE]

Request(n, malformed, policy, use_equation, lo, hi) ==
    [n |-> n, malformed |-> malformed, policy |-> policy,
     use_equation |-> use_equation, lower_bound |-> lo, upper_bound |-> hi]

Requests ==
    { Request(15, FALSE, DefaultPolicy, TRUE, None, None),
      Request(7, FALSE, DefaultPolicy, TRUE, None, None),
      Request(0, TRUE, DefaultPolicy, TRUE, None, None),
      Request(77, FALSE, LateStages, TRUE, 2, 200) }

NoRequest == Request(0, FALSE, DefaultPolicy, FALSE, None, None)

\* Policies and requests of the pipeline on its own.
CadoPolicy ==
    [use_trial_division |-> FALSE, trial_division_limit |-> 10000000,
     use_pollard_rho |-> FALSE, pollard_rho_iterations |-> 1000000,
     use_ecm |-> FALSE]

PipelineRequests ==
    Requests \cup
    { Request(4, FALSE, DefaultPolicy, TRUE, None, None),
      Request(9, FALSE, DefaultPolicy, TRUE, None, None),
      Request(30, FALSE, DefaultPolicy, TRUE, None, None),
      Request(0, FALSE, DefaultPolicy, FALSE, None, None),
      Request(143, FALSE, CadoPolicy, FALSE, None, None),
      Request(77, FALSE, LateStages, TRUE, 7, 200) }

\* The jobs submitted when the only control action is cancel.
CancelRequests ==
    Requests \cup {Request(143, FALSE, CadoPolicy, FALSE, None, None)}

\* Every job the specifications submit.
AllRequests == PipelineRequests \cup CancelRequests

\* The values pollard_rho can return on a request whose policy enables the
\* stage, each request's set worked out once.
pollard_rho_outcomes ==
    [rq \in {q \in AllRequests : q.policy.use_pollard_rho} |->
        pollard_rho(rq.n, rq.policy.pollard_rho_iterations)]

\* The values shor_classical_multi_attempt can return on a request's n for
\* each B of the sweep, worked out once.
shor_outcomes ==
    [n \in {rq.n : rq \in AllRequests} |->
        [i \in 1..4 |->
            shor_classical_multi_attempt(n, <<10000, 50000, 200000, 1000000>>[i])]]

\* -------------------------------------------------------------- job logs
\* The values of JobLog.stage that the service and the task write.
Stages == {"initialization", "primality_check", "equation", "trial_division",
           "pollard_rho", "shor_classical", "ecm", "cado_nfs", "equation_search",
           "complete", "error", "control"}

\* add_log: one more JobLog row of the given stage, committed
add_log(lg, stage) == [lg EXCEPT ![stage] = @ + 1]

\* consecutive add_log calls, one per element of stages
add_logs(lg, stages) ==
    [s \in Stages |-> lg[s] + Cardinality({i \in 1..Len(stages) : stages[i] = s})]

RECURSIVE rows_in(_, _)
rows_in(lg, S) ==
    IF S = {} THEN 0
    ELSE LET s == CHOOSE x \in S : TRUE IN lg[s] + rows_in(lg, S \ {s})

\* The number of JobLog rows; their ids are 1..log_count, in commit order.
log_count(lg) == rows_in(lg, Stages)

\* ---------------------------------------------------------------- state
VARIABLES
    req,        \* the JobCreate body of the job
    job,        \* the persisted Job row
    logs,       \* the persisted JobLog rows of the job: how many per stage
    results,    \* the persisted JobResult rows of the job, by id
    queue,      \* run_factorization tasks enqueued and not yet picked up
    enqueued,   \* tasks enqueued so far
    runs,       \* per task execution: position and session-local state
    ctl,        \* the control request being served by the API process
    nctl,       \* control requests issued so far
    response,   \* the response to the last control request
    stream,     \* the websocket stream of the job
    nstreams,   \* streams opened so far
    kernel      \* a direct call of a kernel: its arguments and what it returned

vars == <<req, job, logs, results, queue, enqueued, runs, ctl, nctl, response,
          stream, nstreams, kernel>>

\* The variables of the job engine.
engine == <<req, job, logs, results, queue, enqueued, runs, ctl, nctl, response,
            stream, nstreams>>

Terminal == {"completed", "failed", "cancelled"}

Runs == 1..MaxRuns

NoJob ==
    [status |-> "absent", started_at |-> FALSE, finished_at |-> FALSE,
     progress_percent |-> 0, current_candidate |-> None,
     error_message |-> FALSE, factors_found |-> <<>>,
     lower_bound |-> None, upper_bound |-> None]

IdleRun ==
    [pc |-> "idle", seen |-> "expired", found_factors |-> <<>>, i |-> 0,
     prime |-> 0, count |-> 0, lower |-> 0, upper |-> 0, raised |-> FALSE,
     subprocess |-> "none"]

IdleCtl == [pc |-> "idle", action |-> "none", seen |-> "none"]

NoStream ==
    [pc |-> "none", last_log_id |-> 0, sent |-> <<>>,
     last_event |-> [type |-> "none", status |-> "none"]]

\* ------------------------------------------------- ECM with checkpoints
\* ECMCheckpoint (the time fields left out); sigma_values is the set of the
\* listed sigmas.
ECMCheckpoint(n, B1, B2, curves_total, curves_completed, sigma_values) ==
    [n |-> n, B1 |-> B1, B2 |-> B2, curves_total |-> curves_total,
     curves_completed |-> curves_completed, sigma_values |-> sigma_values]

\* The number ecm_factor_enhanced is called on.
EcmN == 77
\* The B1 values of the calls and checkpoints (scaled).
EcmB1Values == {1, 2}
\* The largest number of curves of a call or a checkpoint.
MaxCurves == 3
\* The sigmas _generate_sigma draws from: 6 and the MaxCurves values above.
Sigmas == 6..(6 + MaxCurves)

\* The checkpoints a call on EcmN emits with B2 left to its default.
Checkpoints ==
    { cp \in { ECMCheckpoint(EcmN, B1, 100 * B1, total, Cardinality(sg), sg) :
                  B1 \in EcmB1Values, total \in 1..MaxCurves, sg \in SUBSET Sigmas } :
        cp.curves_completed <= cp.curves_total }

\* No call of ecm_factor_enhanced is in progress.
NoEcm ==
    [resume_from |-> ECMCheckpoint(0, 0, 0, 0, 0, {}), B1 |-> 0, B2 |-> 0,
     curves |-> 0, checkpoint_interval |-> 1, curve_idx |-> 0,
     sigma_used |-> {}, drawn |-> <<>>, emitted |-> <<>>]

\* No call of pollard_rho is in progress.
NoRho ==
    [max_iterations |-> 0, budget |-> 0, left |-> 0, x |-> 0, y |-> 0, c |-> 0,
     power |-> 1, lam |-> 1, total |-> 0, restarts |-> 0]

\* No kernel has been called directly.
NoKernel ==
    [op |-> "none", n |-> 0, x |-> 0, x2 |-> 0, y |-> 0, steps |-> <<>>,
     altered |-> FALSE, holds |-> FALSE, ecm |-> NoEcm, rho |-> NoRho]

Init ==
    /\ req = NoRequest
    /\ job = NoJob
    /\ logs = [s \in Stages |-> 0]
    /\ results = <<>>
    /\ queue = 0
    /\ enqueued = 0
    /\ runs = [r \in Runs |-> IdleRun]
    /\ ctl = IdleCtl
    /\ nctl = 0
    /\ response = [action |-> "none", seen |-> "none", status |-> "none",
                   job_status |-> "none"]
    /\ stream = NoStream
    /\ nstreams = 0
    /\ kernel = NoKernel

\* JobService.create_job: the Job row (status pending), the "Job created"
\* log row, then run_factorization_task.delay
create_job(r) ==
    /\ job.status = "absent"
    /\ ctl.pc = "idle"
    /\ req' = r
    /\ job' = [NoJob EXCEPT !.status = "pending",
                            !.lower_bound = r.lower_bound,
                            !.upper_bound = r.upper_bound]
    /\ logs' = add_log(logs, "initialization")
    /\ queue' = queue + 1
    /\ enqueued' = enqueued + 1
    /\ UNCHANGED <<results, runs, ctl, nctl, response, stream, nstreams, kernel>>

\* ------------------------------------------------- run_factorization_task
B_values == <<10000, 50000, 200000, 1000000>>

ecm_stages == <<<<10000, 25>>, <<50000, 100>>, <<250000, 200>>>>

\* Scaled stand-in for check_interval = 10000 of the primesieve loop: the
\* number of primes tested between two progress commits.
SieveCheckInterval == 2

\* Stage 5 is entered by an n of at least this many digits.
AdvancedEcmMinDigits == 30

\* Scaled stand-in for the 200 digits from which stage 6 (CADO-NFS) is
\* entered: the integers of the model stop far below 10^199.
CadoMinDigits == 3

\* The entry conditions with stage 2 entered whatever stage 1 found.
stage_enabled_whatever_found(k, rq, found, row) ==
    CASE k = 1 -> rq.policy.use_trial_division
      [] k = 2 -> rq.policy.use_pollard_rho
      [] k = 3 -> found = <<>>
      [] k = 4 -> found = <<>> /\ rq.policy.use_ecm
      [] k = 5 -> found = <<>> /\ rq.policy.use_ecm /\ digit_count(rq.n) >= AdvancedEcmMinDigits
      [] k = 6 -> found = <<>> /\ digit_count(rq.n) >= CadoMinDigits
      [] k = 7 -> found = <<>> /\ rq.use_equation
                  /\ row.lower_bound # None /\ row.upper_bound # None
      [] OTHER -> FALSE

\* The entry condition of pipeline stage k (worker.py lines 190, 212, 234,
\* 314, 349-351, 397-399, 480) for request rq, found_factors found and the
\* persisted bounds.  Stage 5 needs a 30-digit n, which no request has.
stage_enabled(k, rq, found, row) ==
    CASE k = 1 -> rq.policy.use_trial_division
      [] k = 2 -> found = <<>> /\ rq.policy.use_pollard_rho
      [] k = 3 -> found = <<>>
      [] k = 4 -> found = <<>> /\ rq.policy.use_ecm
      [] k = 5 -> found = <<>> /\ rq.policy.use_ecm /\ digit_count(rq.n) >= AdvancedEcmMinDigits
      [] k = 6 -> found = <<>> /\ digit_count(rq.n) >= CadoMinDigits
      [] k = 7 -> found = <<>> /\ rq.use_equation
                  /\ row.lower_bound # None /\ row.upper_bound # None
      [] OTHER -> FALSE

stage_pc(k) ==
    CASE k = 1 -> "stage1" [] k = 2 -> "stage2" [] k = 3 -> "stage3"
      [] k = 4 -> "stage4" [] k = 5 -> "stage5" [] k = 6 -> "stage6"
      [] k = 7 -> "stage7" [] OTHER -> "finalize"

RECURSIVE next_stage(_, _, _, _)
\* The position after stage k: the first later stage whose entry condition
\* holds, or the Finalize block.
next_stage(k, rq, found, row) ==
    IF k >= 7 THEN "finalize"
    ELSE IF stage_enabled(k + 1, rq, found, row) THEN stage_pc(k + 1)
    ELSE next_stage(k + 1, rq, found, row)

\* record_factor: the JobResult row for factor found by algorithm
record_factor(factor, algorithm) ==
    [factor |-> factor, is_prime |-> is_prime_fast(factor), algorithm |-> algorithm]

\* The cofactor branch of stages 1-5 (e.g. lines 203-209): recorded only
\* when it is > 1, differs from the factor and passes the primality test.
cofactor_recorded(n, factor) ==
    LET cofactor == n \div factor
    IN cofactor > 1 /\ cofactor # factor /\ is_prime_fast(cofactor)

\* The cofactor branch of the sieve stage (lines 630-635): no test against
\* the factor.
cofactor_recorded_sieve(n, factor) ==
    LET cofactor == n \div factor
    IN cofactor > 1 /\ is_prime_fast(cofactor)

found_rows(n, factor, algorithm, with_cofactor) ==
    IF with_cofactor
    THEN <<record_factor(factor, algorithm), record_factor(n \div factor, algorithm)>>
    ELSE <<record_factor(factor, algorithm)>>

found_list(n, factor, with_cofactor) ==
    IF with_cofactor THEN <<factor, n \div factor>> ELSE <<factor>>

found_logs(stage, with_cofactor) ==
    IF with_cofactor THEN <<stage, stage>> ELSE <<stage>>

Expire(run) == [run EXCEPT !.seen = "expired"]

\* lines 65-71: load the job; a cancelled job ends the task at once
W_Load(r) ==
    /\ queue > 0
    /\ r = enqueued - queue + 1
    /\ runs[r].pc = "idle"
    /\ queue' = queue - 1
    /\ runs' = [runs EXCEPT ![r] =
                  [@ EXCEPT !.seen = job.status,
                            !.pc = IF job.status = "cancelled" THEN "done" ELSE "pickup"]]
    /\ UNCHANGED <<req, job, logs, results, enqueued, ctl, nctl, response, stream, nstreams, kernel>>

\* lines 74-76: status RUNNING and started_at, committed
W_Pickup(r) ==
    /\ runs[r].pc = "pickup"
    /\ job' = [job EXCEPT !.status = IF runs[r].seen = "running" THEN @ ELSE "running",
                          !.started_at = TRUE]
    /\ runs' = [runs EXCEPT ![r] = Expire([@ EXCEPT !.pc = "start"])]
    /\ UNCHANGED <<req, logs, results, queue, enqueued, ctl, nctl, response, stream, nstreams, kernel>>

\* lines 79-96 and 119-120: int(job.n), the two opening logs and the
\* primality gate
W_Start(r) ==
    /\ runs[r].pc = "start"
    /\ IF req.malformed
       THEN /\ runs' = [runs EXCEPT ![r] = [@ EXCEPT !.pc = "fail"]]
            /\ UNCHANGED logs
       ELSE IF is_prime_fast(req.n)
       THEN /\ logs' = add_logs(logs, <<"initialization", "primality_check", "primality_check">>)
            /\ runs' = [runs EXCEPT ![r] = [@ EXCEPT !.pc = "prime_commit"]]
       ELSE /\ logs' = add_logs(logs, <<"initialization", "primality_check">>)
            /\ runs' = [runs EXCEPT ![r] =
                 [@ EXCEPT !.pc = IF req.use_equation THEN "equation"
                                  ELSE next_stage(0, req, <<>>, job)]]
    /\ UNCHANGED <<req, job, results, queue, enqueued, ctl, nctl, response, stream, nstreams, kernel>>

\* The gate's commit without `job.progress_percent = 100`.
W_PrimeCommit_without_progress(r) ==
    /\ runs[r].pc = "prime_commit"
    /\ job' = [job EXCEPT !.status = "completed", !.finished_at = TRUE]
    /\ runs' = [runs EXCEPT ![r] = Expire([@ EXCEPT !.pc = "done"])]
    /\ UNCHANGED <<req, logs, results, queue, enqueued, ctl, nctl, response, stream, nstreams, kernel>>

\* lines 112-117: the gate's terminal commit
W_PrimeCommit(r) ==
    /\ runs[r].pc = "prime_commit"
    /\ job' = [job EXCEPT !.status = "completed", !.finished_at = TRUE,
                          !.progress_percent = 100]
    /\ runs' = [runs EXCEPT ![r] = Expire([@ EXCEPT !.pc = "done"])]
    /\ UNCHANGED <<req, logs, results, queue, enqueued, ctl, nctl, response, stream, nstreams, kernel>>

\* lines 121-178: solver set-up; the computed bounds fill the absent ones
W_Equation(r) ==
    /\ runs[r].pc = "equation"
    /\ LET bounds == find_initial_bounds(req.n)
           row == [job EXCEPT
                     !.lower_bound = IF @ = None THEN bounds[1] ELSE @,
                     !.upper_bound = IF @ = None THEN bounds[2] ELSE @]
       IN /\ job' = row
          /\ logs' = add_logs(logs,
                 IF bounds[1] < bounds[2]
                 THEN <<"equation", "equation", "equation", "equation", "equation">>
                 ELSE <<"equation", "equation", "equation", "equation">>)
          /\ runs' = [runs EXCEPT ![r] =
                        Expire([@ EXCEPT !.pc = next_stage(0, req, <<>>, row)])]
    /\ UNCHANGED <<req, results, queue, enqueued, ctl, nctl, response, stream, nstreams, kernel>>

\* A stage's opening block: its stage log and its progress commit
\* (lines 191-193, 213-215, 235-243, 315-317)
StageBegin(r, at, stage, percent, opening_logs, to) ==
    /\ runs[r].pc = at
    /\ logs' = add_logs(logs, opening_logs)
    /\ job' = [job EXCEPT !.progress_percent = percent]
    /\ runs' = [runs EXCEPT ![r] = Expire([@ EXCEPT !.pc = to, !.i = 0])]
    /\ UNCHANGED <<req, results, queue, enqueued, ctl, nctl, response, stream, nstreams, kernel>>

\* A kernel of stages 1-4 has returned factor (None: nothing found): the
\* found log, record_factor, the cofactor branch; k is the stage number.
StageResult(r, k, stage, factor) ==
    IF factor = None
    THEN /\ runs' = [runs EXCEPT ![r] =
                       [@ EXCEPT !.pc = next_stage(k, req, <<>>, job)]]
         /\ UNCHANGED <<logs, results>>
    ELSE LET both == cofactor_recorded(req.n, factor)
             found == found_list(req.n, factor, both)
         IN /\ logs' = add_logs(logs, <<stage>> \o
                            (IF both THEN <<stage>> ELSE <<>>))
            /\ results' = results \o found_rows(req.n, factor, stage, both)
            /\ runs' = [runs EXCEPT ![r] =
                          Expire([@ EXCEPT !.found_factors = found,
                                           !.pc = next_stage(k, req, found, job)])]

W_Stage1(r) == StageBegin(r, "stage1", "trial_division", 5, <<"trial_division">>, "trial")

\* lines 195-209
W_TrialDivision(r) ==
    /\ runs[r].pc = "trial"
    /\ StageResult(r, 1, "trial_division",
                   trial_division_with_wheel(req.n, req.policy.trial_division_limit))
    /\ UNCHANGED <<req, job, queue, enqueued, ctl, nctl, response, stream, nstreams, kernel>>

W_Stage2(r) == StageBegin(r, "stage2", "pollard_rho", 15, <<"pollard_rho">>, "rho")

\* lines 217-231
W_PollardRho(r) ==
    /\ runs[r].pc = "rho"
    /\ \E factor \in pollard_rho_outcomes[req] :
           StageResult(r, 2, "pollard_rho", factor)
    /\ UNCHANGED <<req, job, queue, enqueued, ctl, nctl, response, stream, nstreams, kernel>>

W_Stage3(r) ==
    StageBegin(r, "stage3", "shor_classical", 25,
               <<"shor_classical", "shor_classical">>, "shor_check")

\* lines 249-257: the cancellation check at the head of the B loop
W_ShorCheck(r) ==
    /\ runs[r].pc = "shor_check"
    /\ logs' = add_log(logs, "shor_classical")
    /\ runs' = [runs EXCEPT ![r] =
                  Expire([@ EXCEPT !.pc = IF job.status = "cancelled" THEN "done"
                                          ELSE "shor_attempt"])]
    /\ UNCHANGED <<req, job, results, queue, enqueued, ctl, nctl, response, stream, nstreams, kernel>>

\* lines 259-311: one B of the sweep; a factor (logged with its method, and
\* with its order when post-processing found it) breaks the loop, otherwise
\* the progress commit 25 + int((i + 1) / len(B_values) * 5)
W_ShorAttempt(r) ==
    /\ runs[r].pc = "shor_attempt"
    /\ \E out \in shor_outcomes[req.n][runs[r].i + 1] :
          LET factor == out[1] IN
          IF factor # None
          THEN /\ logs' = add_logs(logs,
                           (IF out[2] = "shor_post_processing"
                            THEN <<"shor_classical", "shor_classical", "shor_classical">>
                            ELSE <<"shor_classical", "shor_classical">>) \o
                           (IF cofactor_recorded(req.n, factor)
                            THEN <<"shor_classical">> ELSE <<>>))
               /\ results' = results \o
                     found_rows(req.n, factor, "shor_classical",
                                cofactor_recorded(req.n, factor))
               /\ runs' = [runs EXCEPT ![r] = Expire([@ EXCEPT
                     !.found_factors =
                         found_list(req.n, factor, cofactor_recorded(req.n, factor)),
                     !.pc = "finalize"])]
               /\ UNCHANGED job
          ELSE /\ job' = [job EXCEPT !.progress_percent =
                             25 + (5 * (runs[r].i + 1)) \div Len(B_values)]
               /\ IF runs[r].i + 1 < Len(B_values)
                  THEN /\ runs' = [runs EXCEPT ![r] =
                             Expire([@ EXCEPT !.i = @ + 1, !.pc = "shor_check"])]
                       /\ UNCHANGED logs
                  ELSE /\ runs' = [runs EXCEPT ![r] =
                             Expire([@ EXCEPT !.pc = next_stage(3, req, <<>>, job)])]
                       /\ logs' = add_log(logs, "shor_classical")
               /\ UNCHANGED results
    /\ UNCHANGED <<req, queue, enqueued, ctl, nctl, response, stream, nstreams, kernel>>

W_Stage4(r) == StageBegin(r, "stage4", "ecm", 30, <<"ecm">>, "ecm_callback")

\* ecm_callback (lines 323-328) called by ecm_factor_staged before stage i
W_EcmCallback(r) ==
    /\ runs[r].pc = "ecm_callback"
    /\ job' = [job EXCEPT !.progress_percent =
                  30 + (runs[r].i * 40) \div Len(ecm_stages)]
    /\ logs' = add_log(logs, "ecm")
    /\ runs' = [runs EXCEPT ![r] = Expire([@ EXCEPT !.pc = "ecm_run"])]
    /\ UNCHANGED <<req, results, queue, enqueued, ctl, nctl, response, stream, nstreams, kernel>>

\* ecm_factor_staged lines 92-99 with worker lines 333-346: a found factor
\* calls the callback once more, then is recorded
W_EcmRun(r) ==
    /\ runs[r].pc = "ecm_run"
    /\ \E factor \in ecm_factor(req.n) :
          IF factor # None
          THEN /\ job' = [job EXCEPT !.progress_percent =
                             30 + (runs[r].i * 40) \div Len(ecm_stages)]
               /\ logs' = add_logs(logs, <<"ecm", "ecm">> \o
                           (IF cofactor_recorded(req.n, factor) THEN <<"ecm">> ELSE <<>>))
               /\ results' = results \o
                     found_rows(req.n, factor, "ecm", cofactor_recorded(req.n, factor))
               /\ runs' = [runs EXCEPT ![r] = Expire([@ EXCEPT
                     !.found_factors =
                         found_list(req.n, factor, cofactor_recorded(req.n, factor)),
                     !.pc = "finalize"])]
          ELSE /\ runs' = [runs EXCEPT ![r] =
                     [@ EXCEPT !.i = @ + 1,
                               !.pc = IF runs[r].i + 1 < Len(ecm_stages)
                                      THEN "ecm_callback"
                                      ELSE next_stage(4, req, <<>>, job)]]
               /\ UNCHANGED <<job, logs, results>>
    /\ UNCHANGED <<req, queue, enqueued, ctl, nctl, response, stream, nstreams, kernel>>

\* cado_nfs.cado_nfs_factor(n) when the sidecar runs: <<>> for the None of
\* a run that reports nothing, or the sorted pair (p, q), p * q = n, that
\* the tool reports.
cado_nfs_factor(n) ==
    {<<>>} \cup {<<p, n \div p>> : p \in {d \in 2..isqrt(n) : n % d = 0}}

\* Whether the Trurl hint is logged (lines 419-426): a solver and a lower bound
cado_hint(rq, row) == rq.use_equation /\ row.lower_bound # None

\* The add_log calls of stage 6 before the sidecar's first output line:
\* the estimate, the hint, the start notice (lines 410-444) and the
\* callbacks of cado_nfs_factor lines 75-85
cado_opening_logs(rq, row) ==
    <<"cado_nfs", "cado_nfs">> \o
    (IF cado_hint(rq, row) THEN <<"cado_nfs">> ELSE <<>>) \o
    (IF cado_hint(rq, row) /\ digit_count(row.lower_bound) > 1
     THEN <<"cado_nfs">> ELSE <<>>) \o
    <<"cado_nfs", "cado_nfs", "cado_nfs", "cado_nfs">>

W_Stage6(r) == StageBegin(r, "stage6", "cado_nfs", 75, <<"cado_nfs">>, "cado")

\* The output lines of the sidecar that a run passes to cado_callback.
MaxCadoLines == 1

\* lines 404-447 and cado_nfs.py lines 63-107: the try block of stage 6 up
\* to subprocess.Popen.  HAS_CADO is what the check at import found.
\* cado_callback logs its line and raises when it reads the status
\* cancelled; cado_nfs_factor's own handler (lines 183-186) passes the error
\* to the callback again, which raises again, and the worker's handler
\* (lines 471-474) logs the cancellation and returns.  Any other exception
\* raised inside the block is logged as a warning and the run goes on.
W_Cado(r) ==
    /\ runs[r].pc = "cado"
    /\ \/ \* HAS_CADO is False
          /\ logs' = add_log(logs, "cado_nfs")
          /\ runs' = [runs EXCEPT ![r] =
                        Expire([@ EXCEPT !.pc = next_stage(6, req, <<>>, job)])]
       \/ \* a callback before Popen reads cancelled
          /\ job.status = "cancelled"
          /\ logs' = add_logs(logs, <<"cado_nfs", "cado_nfs">> \o
                        (IF cado_hint(req, job) THEN <<"cado_nfs">> ELSE <<>>) \o
                        <<"cado_nfs", "cado_nfs", "cado_nfs">>)
          /\ runs' = [runs EXCEPT ![r] = Expire([@ EXCEPT !.pc = "done"])]
       \/ \* subprocess.Popen(cmd)
          /\ job.status # "cancelled"
          /\ logs' = add_logs(logs, cado_opening_logs(req, job))
          /\ runs' = [runs EXCEPT ![r] =
                        [@ EXCEPT !.seen = job.status, !.pc = "cado_run",
                                  !.i = 0, !.subprocess = "running"]]
       \/ \* a call inside the try block raises
          /\ job.status # "cancelled"
          /\ logs' = add_logs(logs, <<"cado_nfs", "cado_nfs">>)
          /\ runs' = [runs EXCEPT ![r] = Expire([@ EXCEPT
                        !.raised = TRUE,
                        !.pc = next_stage(6, req, <<>>, job)])]
    /\ UNCHANGED <<req, job, results, queue, enqueued, ctl, nctl, response, stream, nstreams, kernel>>

\* cado_nfs.py lines 111-125: the sidecar writes a line that holds no factor
\* and the loop passes it to cado_callback.  When the callback reads
\* cancelled its exception leaves the loop for the handler at 183-186 and
\* then the worker's at 471-474, which returns: no statement on that path
\* ends the process.
W_CadoLine(r) ==
    /\ runs[r].pc = "cado_run"
    /\ runs[r].i < MaxCadoLines
    /\ IF job.status = "cancelled"
       THEN /\ logs' = add_logs(logs, <<"cado_nfs", "cado_nfs", "cado_nfs">>)
            /\ runs' = [runs EXCEPT ![r] = Expire([@ EXCEPT !.pc = "done"])]
       ELSE /\ logs' = add_log(logs, "cado_nfs")
            /\ runs' = [runs EXCEPT ![r] =
                          [@ EXCEPT !.seen = job.status, !.i = @ + 1]]
    /\ UNCHANGED <<req, job, results, queue, enqueued, ctl, nctl, response, stream, nstreams, kernel>>

\* cado_nfs.py lines 127-176 and lines 455-462: the output ends, or a line
\* reports the factors, process.wait() returns and the result is recorded.
W_CadoExit(r) ==
    /\ runs[r].pc = "cado_run"
    /\ IF job.status = "cancelled"
       THEN \* the callback after process.wait() reads cancelled
            /\ logs' = add_logs(logs, <<"cado_nfs", "cado_nfs", "cado_nfs">>)
            /\ runs' = [runs EXCEPT ![r] =
                          Expire([@ EXCEPT !.pc = "done", !.subprocess = "exited"])]
            /\ UNCHANGED results
       ELSE \E result \in cado_nfs_factor(req.n) :
               IF result = <<>>
               THEN /\ logs' = add_log(logs, "cado_nfs")
                    /\ runs' = [runs EXCEPT ![r] =
                          [@ EXCEPT !.seen = job.status, !.subprocess = "exited",
                                    !.pc = next_stage(6, req, <<>>, job)]]
                    /\ UNCHANGED results
               ELSE /\ logs' = add_logs(logs, <<"cado_nfs", "cado_nfs", "cado_nfs", "cado_nfs">>)
                    /\ results' = results \o <<record_factor(result[1], "cado_nfs"),
                                               record_factor(result[2], "cado_nfs")>>
                    /\ runs' = [runs EXCEPT ![r] = Expire([@ EXCEPT
                          !.found_factors = result, !.subprocess = "exited",
                          !.pc = next_stage(6, req, result, job)])]
    /\ UNCHANGED <<req, job, queue, enqueued, ctl, nctl, response, stream, nstreams, kernel>>

\* The positions at which a call of the stage can raise.
RaisePcs == {"equation", "trial", "rho", "shor_attempt", "ecm_run", "sieve"}

\* A statement of the task's try block outside stage 6 raises an unexpected
\* exception (a persistence failure, an error of a kernel): control passes
\* to the handler of line 664.
W_Raise(r) ==
    /\ runs[r].pc \in RaisePcs
    /\ runs' = [runs EXCEPT ![r] = [@ EXCEPT !.raised = TRUE, !.pc = "fail"]]
    /\ UNCHANGED <<req, job, logs, results, queue, enqueued, ctl, nctl, response, stream, nstreams, kernel>>

\* int(70 + estimate_progress(current, lower, upper) * 0.25) of line 642.
\* estimate_progress is 0.0 below the range, 100.0 at its end and a ratio
\* of floating-point logarithms inside; the inner values are tabulated for
\* the ranges the requests search, as IEEE double arithmetic gives them.
SievePercentTable ==
    [b \in {<<2, 200>>} |->
        [c \in 2..11 |->
            CASE c = 2 -> 70 [] c = 3 -> 72 [] c = 4 -> 73 [] c = 5 -> 74
              [] c = 6 -> 75 [] c = 7 -> 76 [] c = 8 -> 77 [] c = 9 -> 78
              [] c = 10 -> 78 [] c = 11 -> 79]]

sieve_progress_percent(current, lower, upper) ==
    IF upper <= lower \/ current < lower THEN 70
    ELSE IF current >= upper THEN 95
    ELSE SievePercentTable[<<lower, upper>>][current]

\* the while condition of line 586
sieve_continues(prime, upper, n) == prime <= upper /\ prime <= isqrt(n)

\* lines 481-486 and 576-584: the sieve stage opens (primesieve path, the
\* bounds being below 2^64): progress 75, the iterator placed by
\* skipto(lower), whose next_prime() is the least prime above lower
W_Stage7(r) ==
    /\ runs[r].pc = "stage7"
    /\ logs' = add_logs(logs, <<"equation_search", "equation_search">>)
    /\ job' = [job EXCEPT !.progress_percent = 75]
    /\ LET first == next_prime(job.lower_bound)
       IN runs' = [runs EXCEPT ![r] = Expire([@ EXCEPT
                     !.lower = job.lower_bound, !.upper = job.upper_bound,
                     !.prime = first, !.count = 0,
                     !.pc = IF sieve_continues(first, job.upper_bound, req.n)
                            THEN "sieve" ELSE "finalize"])]
    /\ UNCHANGED <<req, results, queue, enqueued, ctl, nctl, response, stream, nstreams, kernel>>

\* lines 586-646: one iteration of the sieve loop: the cancellation check,
\* the divisibility test, the periodic progress commit, the next prime
W_Sieve(r) ==
    /\ runs[r].pc = "sieve"
    /\ LET run == runs[r]
           prime == run.prime
           both == cofactor_recorded_sieve(req.n, prime)
           count == run.count + 1
           following == next_prime(prime)
           more == sieve_continues(following, run.upper, req.n)
       IN IF job.status = "cancelled"
          THEN /\ logs' = add_log(logs, "equation_search")
               /\ runs' = [runs EXCEPT ![r] = Expire([@ EXCEPT !.pc = "done"])]
               /\ UNCHANGED <<job, results>>
          ELSE IF req.n % prime = 0
          THEN /\ logs' = add_logs(logs,
                     <<"equation_search", "equation_search", "equation_search">> \o
                     (IF both THEN <<"equation_search">> ELSE <<>>))
               /\ results' = results \o found_rows(req.n, prime, "equation_search", both)
               /\ runs' = [runs EXCEPT ![r] = Expire([@ EXCEPT
                     !.found_factors = found_list(req.n, prime, both),
                     !.pc = "finalize"])]
               /\ UNCHANGED job
          ELSE IF count % SieveCheckInterval = 0
          THEN /\ job' = [job EXCEPT
                     !.progress_percent =
                         sieve_progress_percent(prime, run.lower, run.upper),
                     !.current_candidate = prime]
               /\ runs' = [runs EXCEPT ![r] = Expire([@ EXCEPT
                     !.count = count, !.prime = following,
                     !.pc = IF more THEN "sieve" ELSE "finalize"])]
               /\ UNCHANGED <<logs, results>>
          ELSE /\ runs' = [runs EXCEPT ![r] = [@ EXCEPT
                     !.seen = job.status,
                     !.count = count, !.prime = following,
                     !.pc = IF more THEN "sieve" ELSE "finalize"]]
               /\ UNCHANGED <<job, logs, results>>
    /\ UNCHANGED <<req, queue, enqueued, ctl, nctl, response, stream, nstreams, kernel>>

\* The Finalize block without the assignment of job.status.
W_FinalizeLog_keeping_status(r) ==
    /\ runs[r].pc = "finalize"
    /\ job' = [job EXCEPT
                  !.factors_found = IF runs[r].found_factors # <<>>
                                    THEN runs[r].found_factors ELSE @]
    /\ logs' = add_log(logs, "complete")
    /\ runs' = [runs EXCEPT ![r] = Expire([@ EXCEPT !.pc = "finalize_commit"])]
    /\ UNCHANGED <<req, results, queue, enqueued, ctl, nctl, response, stream, nstreams, kernel>>

\* lines 649-655: job.status = COMPLETED (and factors_found) is assigned and
\* add_log commits it together with the "complete" log row
W_FinalizeLog(r) ==
    /\ runs[r].pc = "finalize"
    /\ job' = [job EXCEPT
                  !.status = IF runs[r].seen = "completed" THEN @ ELSE "completed",
                  !.factors_found = IF runs[r].found_factors # <<>>
                                    THEN runs[r].found_factors ELSE @]
    /\ logs' = add_log(logs, "complete")
    /\ runs' = [runs EXCEPT ![r] = Expire([@ EXCEPT !.pc = "finalize_commit"])]
    /\ UNCHANGED <<req, results, queue, enqueued, ctl, nctl, response, stream, nstreams, kernel>>

\* lines 657-662: finished_at, total_time_seconds and progress 100
W_FinalizeCommit(r) ==
    /\ runs[r].pc = "finalize_commit"
    /\ job' = [job EXCEPT !.finished_at = TRUE, !.progress_percent = 100]
    /\ runs' = [runs EXCEPT ![r] = Expire([@ EXCEPT !.pc = "done"])]
    /\ UNCHANGED <<req, logs, results, queue, enqueued, ctl, nctl, response, stream, nstreams, kernel>>

\* lines 664-672: the exception handler: the error log, the job queried
\* again, FAILED with error_message and finished_at
W_Fail(r) ==
    /\ runs[r].pc = "fail"
    /\ logs' = add_log(logs, "error")
    /\ job' = [job EXCEPT !.status = "failed", !.error_message = TRUE,
                          !.finished_at = TRUE]
    /\ runs' = [runs EXCEPT ![r] = Expire([@ EXCEPT !.pc = "done"])]
    /\ UNCHANGED <<req, results, queue, enqueued, ctl, nctl, response, stream, nstreams, kernel>>

\* ------------------------------------------------------- control requests
Actions == {"pause", "resume", "cancel"}

\* Whether JobService.pause_job / resume_job / cancel_job changes a job
\* whose loaded status is st (lines 64, 77, 92).
transition_valid(action, st) ==
    CASE action = "pause" -> st = "running"
      [] action = "resume" -> st = "paused"
      [] action = "cancel" -> st \in {"pending", "running", "paused"}

\* control_job -> JobService.{pause,resume,cancel}_job, the query
\* (lines 60, 73, 88)
control_job_load(action) ==
    /\ job.status # "absent"
    /\ ctl.pc = "idle"
    /\ nctl < MaxControl
    /\ (action = "resume" /\ job.status = "paused") => enqueued < MaxRuns
    /\ ctl' = [pc |-> "loaded", action |-> action, seen |-> job.status]
    /\ nctl' = nctl + 1
    /\ UNCHANGED <<req, job, logs, results, queue, enqueued, runs, response, stream, nstreams, kernel>>

\* The rest of the handler: the guarded status change committed with its
\* "control" log row, the re-enqueue of resume_job, and the response of
\* control_job (routes/jobs.py line 109)
control_job_commit ==
    /\ ctl.pc = "loaded"
    /\ LET valid == transition_valid(ctl.action, ctl.seen)
           target == CASE ctl.action = "pause" -> "paused"
                       [] ctl.action = "resume" -> "running"
                       [] ctl.action = "cancel" -> "cancelled"
           row == IF valid
                  THEN [job EXCEPT !.status = target,
                                   !.finished_at = IF ctl.action = "cancel" THEN TRUE ELSE @]
                  ELSE job
       IN /\ job' = row
          /\ logs' = IF valid THEN add_log(logs, "control") ELSE logs
          /\ queue' = IF valid /\ ctl.action = "resume" THEN queue + 1 ELSE queue
          /\ enqueued' = IF valid /\ ctl.action = "resume" THEN enqueued + 1 ELSE enqueued
          /\ response' = [action |-> ctl.action, seen |-> ctl.seen,
                          status |-> "success", job_status |-> row.status]
    /\ ctl' = IdleCtl
    /\ UNCHANGED <<req, results, runs, nctl, stream, nstreams, kernel>>

\* ------------------------------------------------------------- the stream
\* stream_job_logs lines 171-186: the websocket accepted for an existing job
stream_open ==
    /\ job.status # "absent"
    /\ ctl.pc = "idle"
    /\ stream.pc = "none"
    /\ nstreams < MaxStreams
    /\ stream' = [NoStream EXCEPT !.pc = "open"]
    /\ nstreams' = nstreams + 1
    /\ UNCHANGED <<req, job, logs, results, queue, enqueued, runs, ctl, nctl, response, kernel>>

\* One pass of the loop of lines 188-224: refresh, the log rows above
\* last_log_id sent in id order, the progress event, and on a terminal
\* status the complete event that ends the stream
stream_poll ==
    /\ stream.pc = "open"
    /\ ctl.pc = "idle"
    /\ stream' = [pc |-> IF job.status \in Terminal THEN "ended" ELSE "open",
                  last_log_id |-> log_count(logs),
                  sent |-> stream.sent \o
                           [k \in 1..(log_count(logs) - stream.last_log_id) |->
                               stream.last_log_id + k],
                  last_event |->
                      [type |-> IF job.status \in Terminal THEN "complete" ELSE "progress",
                       status |-> job.status]]
    /\ UNCHANGED <<req, job, logs, results, queue, enqueued, runs, ctl, nctl, response, nstreams, kernel>>

\* ----------------------------------------------------------- certificates
\* The largest n that gets (and passes as) a small_prime step.
SmallPrimeLimit == 1000

\* small_primes of generate_certificate_simple
pocklington_primes == <<2, 3, 5, 7, 11, 13, 17, 19, 23, 29, 31, 37, 41, 43, 47, 53>>

StepTypes == {"small_prime", "pocklington", "probable_prime", "ecpp_step", "unknown"}

\* A proof step: of the keys of the dict, its type, its n and its witness
\* (None when the step carries none).
Step(type, n, witness) == [type |-> type, n |-> n, witness |-> witness]

RECURSIVE strip_prime(_, _)
\* the while loop R % p == 0: R //= p
strip_prime(R, p) == IF R % p = 0 THEN strip_prime(R \div p, p) ELSE R

RECURSIVE strip_primes(_, _)
\* the for loop over small_primes from index i on: the R that is left
strip_primes(R, i) ==
    IF i > Len(pocklington_primes) THEN R
    ELSE strip_primes(strip_prime(R, pocklington_primes[i]), i + 1)

\* set(factors): the small primes dividing n - 1
pocklington_factors(n) ==
    {pocklington_primes[i] : i \in {j \in 1..Len(pocklington_primes) :
                                       (n - 1) % pocklington_primes[j] = 0}}

\* The conditions on a witness a (lines 184-193)
valid_witness(n, a) ==
    /\ powmod(a, n - 1, n) = 1
    /\ \A q \in pocklington_factors(n) :
          gcd(powmod(a, (n - 1) \div q, n) - 1, n) = 1

\* generate_certificate_simple: the steps of the certificate, <<>> standing
\* for the None returned on a composite n
generate_certificate_simple(n) ==
    IF ~gmpy2_is_prime(n) THEN <<>>
    ELSE IF n <= SmallPrimeLimit THEN <<Step("small_prime", n, None)>>
    ELSE LET R == strip_primes(n - 1, 1)
             F == (n - 1) \div R
             witnesses == {a \in 2..(Min2(100, n) - 1) : valid_witness(n, a)}
         IN IF F * F > n /\ witnesses # {}
            THEN <<Step("pocklington", n,
                        CHOOSE a \in witnesses : \A b \in witnesses : a <= b)>>
            ELSE <<Step("probable_prime", n, None)>>

\* PrimalityCertificate._trial_division_primality
trial_division_primality(n) ==
    IF n < 2 THEN FALSE
    ELSE IF n = 2 THEN TRUE
    ELSE IF n % 2 = 0 THEN FALSE
    ELSE \A d \in 3..n : (d % 2 = 1 /\ d * d <= n) => n % d # 0

\* PrimalityCertificate._verify_ecpp_step
verify_ecpp_step(step) == TRUE

\* PrimalityCertificate._verify_step
verify_step(step) ==
    IF step.type = "small_prime"
    THEN IF step.n <= SmallPrimeLimit THEN trial_division_primality(step.n) ELSE FALSE
    ELSE IF step.type = "ecpp_step" THEN verify_ecpp_step(step)
    ELSE FALSE

\* PrimalityCertificate.verify
verify(steps) ==
    IF steps = <<>> THEN FALSE
    ELSE \A i \in 1..Len(steps) : verify_step(steps[i])

\* ----------------------------------------------------- direct kernel calls
\* The largest n handed to is_prime_bpsw.
MaxBpswN == 3000
\* The largest factor of the N = p * q handed to the equation solver.
MaxFactor == 12
\* Certificates are generated for 0..MaxCertN and for the MaxCertSpan
\* numbers above SmallPrimeLimit.
MaxCertN == 40
MaxCertSpan == 25
\* The largest N, and the largest x, handed to verify_inverse_relationship.
MaxInverseN == 30
MaxInverseX == 10

CertInputs ==
    (0..MaxCertN) \cup ((SmallPrimeLimit - 3)..(SmallPrimeLimit + MaxCertSpan))

\* The values an altered step's n is set to.
AlteredValues == {4, 5}

\* is_prime_bpsw(n)
bpsw_call(n) ==
    /\ kernel.op = "none"
    /\ job.status = "absent"
    /\ kernel' = [kernel EXCEPT !.op = "is_prime_bpsw", !.n = n,
                                !.holds = is_prime_bpsw(n)]
    /\ UNCHANGED engine

\* SemiPrimeEquationSolver(p * q).compute_y_from_x(p)
solver_call(p, q) ==
    /\ kernel.op = "none"
    /\ job.status = "absent"
    /\ kernel' = [kernel EXCEPT !.op = "compute_y_from_x", !.n = p * q, !.x = p,
                                !.y = compute_y_from_x(p * q, p)]
    /\ UNCHANGED engine

\* SemiPrimeEquationSolver(n).verify_inverse_relationship(x1, x2)
inverse_call(n, x1, x2) ==
    /\ kernel.op = "none"
    /\ job.status = "absent"
    /\ kernel' = [kernel EXCEPT !.op = "verify_inverse_relationship", !.n = n,
                                !.x = x1, !.x2 = x2,
                                !.holds = verify_inverse_relationship(n, x1, x2)]
    /\ UNCHANGED engine

\* cert = generate_certificate_simple(n)
cert_generate(n) ==
    /\ kernel.op = "none"
    /\ job.status = "absent"
    /\ LET steps == generate_certificate_simple(n)
       IN kernel' = [kernel EXCEPT
                        !.op = IF steps = <<>> THEN "no_certificate" ELSE "generated",
                        !.n = n, !.steps = steps]
    /\ UNCHANGED engine

\* A step of the generated certificate is altered: another type, or another n.
cert_alter ==
    /\ kernel.op = "generated"
    /\ ~kernel.altered
    /\ \E i \in 1..Len(kernel.steps) :
          \/ \E t \in StepTypes \ {kernel.steps[i].type} :
                kernel' = [kernel EXCEPT !.altered = TRUE, !.steps[i].type = t]
          \/ \E v \in AlteredValues \ {kernel.steps[i].n} :
                kernel' = [kernel EXCEPT !.altered = TRUE, !.steps[i].n = v]
    /\ UNCHANGED engine

\* cert.verify()
cert_verify ==
    /\ kernel.op = "generated"
    /\ kernel' = [kernel EXCEPT !.op = "verified", !.holds = verify(kernel.steps)]
    /\ UNCHANGED engine

\* The largest n, and the largest limit, handed to trial_division_with_wheel.
MaxTrialN == 40
MaxTrialLimit == 8

\* trial_division_with_wheel(n, limit); limit None (0) is the default
trial_division_call(n, limit) ==
    /\ kernel.op = "none"
    /\ job.status = "absent"
    /\ kernel' = [kernel EXCEPT !.op = "trial_division_with_wheel", !.n = n,
                                !.x = limit,
                                !.y = trial_division_with_wheel(n, limit)]
    /\ UNCHANGED engine

\* The largest n handed to shor_classical_one_shot.
MaxShorN == 20

\* shor_classical_one_shot(n, B, a) with B = B_values[1] and the base a, one
\* of the values random.randint(2, n - 2) can return
shor_call(n, a) ==
    /\ kernel.op = "none"
    /\ job.status = "absent"
    /\ kernel' = [kernel EXCEPT !.op = "shor_classical_one_shot", !.n = n,
                                !.x = a,
                                !.y = shor_classical_one_shot(n, B_values[1], a)[1]]
    /\ UNCHANGED engine

\* The largest n, and the largest max_iterations, handed to pollard_rho.
MaxRhoN == 15
MaxRhoIterations == 3

\* pollard_rho(n, max_iterations), lines 24-28: 2 for an even n, None for a
\* prime n, otherwise the random start is drawn next.
pollard_rho_call(n, max_iterations) ==
    /\ kernel.op = "none"
    /\ job.status = "absent"
    /\ kernel' = [kernel EXCEPT
          !.n = n,
          !.op = IF n % 2 = 0 \/ gmpy2_is_prime(n)
                 THEN "pollard_rho_returned" ELSE "pollard_rho_draw",
          !.y = IF n % 2 = 0 THEN 2 ELSE None,
          !.rho = [NoRho EXCEPT !.max_iterations = max_iterations,
                                !.budget = max_iterations]]
    /\ UNCHANGED engine

\* lines 31-37: x = random.randint(2, n - 2), y = x, c = random.randint(1,
\* n - 1), power = lam = 1, and the for loop over range(max_iterations)
pollard_rho_draw(x, c) ==
    /\ kernel.op = "pollard_rho_draw"
    /\ kernel' = [kernel EXCEPT
          !.op = "pollard_rho_loop",
          !.rho = [@ EXCEPT !.x = x, !.y = x, !.c = c, !.power = 1, !.lam = 1,
                            !.left = kernel.rho.budget]]
    /\ UNCHANGED engine

\* One pass of the for loop with d = n returned like any other d.
pollard_rho_iterate_returning_n ==
    /\ kernel.op = "pollard_rho_loop"
    /\ LET s == kernel.rho
           n == kernel.n
           y1 == IF s.power = s.lam THEN s.x ELSE s.y
           power1 == IF s.power = s.lam THEN s.power * 2 ELSE s.power
           lam0 == IF s.power = s.lam THEN 0 ELSE s.lam
           x1 == (powmod(s.x, 2, n) + s.c) % n
           d == gcd(Abs(x1 - y1), n)
       IN IF s.left = 0
          THEN kernel' = [kernel EXCEPT !.op = "pollard_rho_returned", !.y = None]
          ELSE IF d # 1
          THEN kernel' = [kernel EXCEPT !.op = "pollard_rho_returned", !.y = d,
                                        !.rho.total = @ + 1]
          ELSE kernel' = [kernel EXCEPT
                  !.rho = [@ EXCEPT !.x = x1, !.y = y1, !.power = power1,
                                    !.lam = lam0 + 1, !.left = @ - 1,
                                    !.total = @ + 1]]
    /\ UNCHANGED engine

\* lines 39-57: one pass of the for loop, or its end (return None): d other
\* than 1 and n is returned, d = n restarts with max_iterations // 2.
pollard_rho_iterate ==
    /\ kernel.op = "pollard_rho_loop"
    /\ LET s == kernel.rho
           n == kernel.n
           y1 == IF s.power = s.lam THEN s.x ELSE s.y
           power1 == IF s.power = s.lam THEN s.power * 2 ELSE s.power
           lam0 == IF s.power = s.lam THEN 0 ELSE s.lam
           x1 == (powmod(s.x, 2, n) + s.c) % n
           d == gcd(Abs(x1 - y1), n)
       IN IF s.left = 0
          THEN kernel' = [kernel EXCEPT !.op = "pollard_rho_returned", !.y = None]
          ELSE IF d # 1 /\ d = n
          THEN kernel' = [kernel EXCEPT
                  !.op = "pollard_rho_draw",
                  !.rho = [@ EXCEPT !.budget = @ \div 2, !.total = @ + 1,
                                    !.restarts = @ + 1]]
          ELSE IF d # 1
          THEN kernel' = [kernel EXCEPT !.op = "pollard_rho_returned", !.y = d,
                                        !.rho.total = @ + 1]
          ELSE kernel' = [kernel EXCEPT
                  !.rho = [@ EXCEPT !.x = x1, !.y = y1, !.power = power1,
                                    !.lam = lam0 + 1, !.left = @ - 1,
                                    !.total = @ + 1]]
    /\ UNCHANGED engine

\* ecm_factor_enhanced(n, B1, curves=curves, checkpoint_interval=...,
\* checkpoint_callback=..., resume_from=cp), lines 81-98: B2 is None and
\* becomes 100 * B1; the start curve and the used sigmas come from cp.
ecm_factor_enhanced_call(B1, curves, checkpoint_interval, cp) ==
    /\ kernel.op = "none"
    /\ job.status = "absent"
    /\ kernel' = [kernel EXCEPT
          !.op = "ecm_factor_enhanced", !.n = cp.n,
          !.ecm = [resume_from |-> cp, B1 |-> B1, B2 |-> 100 * B1,
                   curves |-> curves, checkpoint_interval |-> checkpoint_interval,
                   curve_idx |-> cp.curves_completed,
                   sigma_used |-> cp.sigma_values,
                   drawn |-> <<>>, emitted |-> <<>>]]
    /\ UNCHANGED engine

\* lines 104-137 (and 186-213 without Sage): one pass of the loop over
\* range(start_curve, curves): a sigma not yet used, the curve, which finds
\* a factor (return) or does not, and the checkpoint every
\* checkpoint_interval curves.
ecm_factor_enhanced_curve ==
    /\ kernel.op = "ecm_factor_enhanced"
    /\ kernel.ecm.curve_idx < kernel.ecm.curves
    /\ \E sigma \in Sigmas \ kernel.ecm.sigma_used : \E found \in BOOLEAN :
          LET e == kernel.ecm
              used == e.sigma_used \cup {sigma}
              checkpoint == ECMCheckpoint(kernel.n, e.B1, e.B2, e.curves,
                                          e.curve_idx + 1, used)
          IN kernel' = [kernel EXCEPT
                !.op = IF found THEN "ecm_factor_enhanced_returned" ELSE @,
                !.ecm = [e EXCEPT
                   !.curve_idx = IF found THEN @ ELSE @ + 1,
                   !.sigma_used = used,
                   !.drawn = Append(@, [curve |-> e.curve_idx + 1, sigma |-> sigma]),
                   !.emitted =
                       IF ~found /\ (e.curve_idx + 1) % e.checkpoint_interval = 0
                       THEN Append(@, checkpoint) ELSE @]]
    /\ UNCHANGED engine

\* line 147: the loop is over, the call returns None.
ecm_factor_enhanced_return ==
    /\ kernel.op = "ecm_factor_enhanced"
    /\ kernel.ecm.curve_idx >= kernel.ecm.curves
    /\ kernel' = [kernel EXCEPT !.op = "ecm_factor_enhanced_returned"]
    /\ UNCHANGED engine

\* ------------------------------------------------------- specifications
\* The job engine: submission, the task executions and the control requests.
\* The stream only reads the rows (stream_open and stream_poll leave every
\* other variable unchanged), so it is left out of this next-state relation.
Next ==
    \/ \E r \in Requests : create_job(r)
    \/ \E r \in Runs : W_Load(r)
    \/ \E r \in Runs : W_Pickup(r)
    \/ \E r \in Runs : W_Start(r)
    \/ \E r \in Runs : W_PrimeCommit(r)
    \/ \E r \in Runs : W_Equation(r)
    \/ \E r \in Runs : W_Stage1(r)
    \/ \E r \in Runs : W_TrialDivision(r)
    \/ \E r \in Runs : W_Stage2(r)
    \/ \E r \in Runs : W_PollardRho(r)
    \/ \E r \in Runs : W_Stage3(r)
    \/ \E r \in Runs : W_ShorCheck(r)
    \/ \E r \in Runs : W_ShorAttempt(r)
    \/ \E r \in Runs : W_Stage4(r)
    \/ \E r \in Runs : W_EcmCallback(r)
    \/ \E r \in Runs : W_EcmRun(r)
    \/ \E r \in Runs : W_Stage7(r)
    \/ \E r \in Runs : W_Sieve(r)
    \/ \E r \in Runs : W_FinalizeLog(r)
    \/ \E r \in Runs : W_FinalizeCommit(r)
    \/ \E r \in Runs : W_Fail(r)
    \/ \E a \in Actions : control_job_load(a)
    \/ control_job_commit

Spec == Init /\ [][Next]_vars

\* The job engine observed by a stream, for the requests that end in the
\* primality gate, in stage 1 or in the exception handler.  Every step of
\* StreamNext that is no stream step is a step of Next.
StreamRequests == {r \in Requests : r.policy = DefaultPolicy}

StreamNext ==
    \/ \E r \in StreamRequests : create_job(r)
    \/ \E r \in Runs : W_Load(r)
    \/ \E r \in Runs : W_Pickup(r)
    \/ \E r \in Runs : W_Start(r)
    \/ \E r \in Runs : W_PrimeCommit(r)
    \/ \E r \in Runs : W_Equation(r)
    \/ \E r \in Runs : W_Stage1(r)
    \/ \E r \in Runs : W_TrialDivision(r)
    \/ \E r \in Runs : W_FinalizeLog(r)
    \/ \E r \in Runs : W_FinalizeCommit(r)
    \/ \E r \in Runs : W_Fail(r)
    \/ \E a \in Actions : control_job_load(a)
    \/ control_job_commit
    \/ stream_open
    \/ stream_poll

StreamSpec == Init /\ [][StreamNext]_vars

\* One task execution per job, with no control request and no stream: every
\* stage of the pipeline, stage 6 and the exceptions of the stages included.
PipelineNext ==
    \/ \E r \in PipelineRequests : create_job(r)
    \/ \E r \in Runs : W_Load(r)
    \/ \E r \in Runs : W_Pickup(r)
    \/ \E r \in Runs : W_Start(r)
    \/ \E r \in Runs : W_PrimeCommit(r)
    \/ \E r \in Runs : W_Equation(r)
    \/ \E r \in Runs : W_Stage1(r)
    \/ \E r \in Runs : W_TrialDivision(r)
    \/ \E r \in Runs : W_Stage2(r)
    \/ \E r \in Runs : W_PollardRho(r)
    \/ \E r \in Runs : W_Stage3(r)
    \/ \E r \in Runs : W_ShorCheck(r)
    \/ \E r \in Runs : W_ShorAttempt(r)
    \/ \E r \in Runs : W_Stage4(r)
    \/ \E r \in Runs : W_EcmCallback(r)
    \/ \E r \in Runs : W_EcmRun(r)
    \/ \E r \in Runs : W_Stage6(r)
    \/ \E r \in Runs : W_Cado(r)
    \/ \E r \in Runs : W_CadoLine(r)
    \/ \E r \in Runs : W_CadoExit(r)
    \/ \E r \in Runs : W_Stage7(r)
    \/ \E r \in Runs : W_Sieve(r)
    \/ \E r \in Runs : W_Raise(r)
    \/ \E r \in Runs : W_FinalizeLog(r)
    \/ \E r \in Runs : W_FinalizeCommit(r)
    \/ \E r \in Runs : W_Fail(r)

PipelineSpec == Init /\ [][PipelineNext]_vars

\* A step of a task execution.
WorkerNext ==
    \/ \E r \in Runs : W_Load(r)
    \/ \E r \in Runs : W_Pickup(r)
    \/ \E r \in Runs : W_Start(r)
    \/ \E r \in Runs : W_PrimeCommit(r)
    \/ \E r \in Runs : W_Equation(r)
    \/ \E r \in Runs : W_Stage1(r)
    \/ \E r \in Runs : W_TrialDivision(r)
    \/ \E r \in Runs : W_Stage2(r)
    \/ \E r \in Runs : W_PollardRho(r)
    \/ \E r \in Runs : W_Stage3(r)
    \/ \E r \in Runs : W_ShorCheck(r)
    \/ \E r \in Runs : W_ShorAttempt(r)
    \/ \E r \in Runs : W_Stage4(r)
    \/ \E r \in Runs : W_EcmCallback(r)
    \/ \E r \in Runs : W_EcmRun(r)
    \/ \E r \in Runs : W_Stage6(r)
    \/ \E r \in Runs : W_Cado(r)
    \/ \E r \in Runs : W_CadoLine(r)
    \/ \E r \in Runs : W_CadoExit(r)
    \/ \E r \in Runs : W_Stage7(r)
    \/ \E r \in Runs : W_Sieve(r)
    \/ \E r \in Runs : W_FinalizeLog(r)
    \/ \E r \in Runs : W_FinalizeCommit(r)
    \/ \E r \in Runs : W_Fail(r)

\* Submission, the task execution and cancel requests: no pause, no resume.
CancelNext ==
    \/ \E r \in CancelRequests : create_job(r)
    \/ WorkerNext
    \/ \E r \in Runs : W_Raise(r)
    \/ control_job_load("cancel")
    \/ control_job_commit

CancelSpec == Init /\ [][CancelNext]_vars

\* The same under a fair worker pool: a task execution that can take a step
\* takes it (every kernel call returns, every queued task is picked up).
FairCancelSpec == CancelSpec /\ WF_vars(WorkerNext)

\* The kernels called directly, each on every input of its bounded range.
KernelNext ==
    \/ \E n \in 0..MaxBpswN : bpsw_call(n)
    \/ \E p \in 2..MaxFactor : \E q \in p..MaxFactor : solver_call(p, q)
    \/ \E n \in 2..MaxInverseN : \E x1, x2 \in 1..MaxInverseX : inverse_call(n, x1, x2)
    \/ \E n \in CertInputs : cert_generate(n)
    \/ cert_alter
    \/ cert_verify

KernelSpec == Init /\ [][KernelNext]_vars

\* The factoring kernels called directly.
AlgoNext ==
    \/ \E B1 \in EcmB1Values : \E curves \in 1..MaxCurves :
         \E interval \in 1..2 : \E cp \in Checkpoints :
            ecm_factor_enhanced_call(B1, curves, interval, cp)
    \/ ecm_factor_enhanced_curve
    \/ ecm_factor_enhanced_return
    \/ \E n \in 2..MaxTrialN : \E limit \in {None} \cup 1..MaxTrialLimit :
          trial_division_call(n, limit)
    \/ \E n \in {m \in 4..MaxShorN : m % 2 = 0} : \E a \in 2..(n - 2) : shor_call(n, a)
    \/ \E n \in 4..MaxRhoN : \E m \in 0..MaxRhoIterations : pollard_rho_call(n, m)
    \/ \E x \in 2..(kernel.n - 2) : \E c \in 1..(kernel.n - 1) : pollard_rho_draw(x, c)
    \/ pollard_rho_iterate

AlgoSpec == Init /\ [][AlgoNext]_vars

\* The kernels with every started call going on: a call that can take a step
\* takes it.
FairAlgoSpec ==
    /\ AlgoSpec
    /\ WF_vars(\E x \in 2..(kernel.n - 2) : \E c \in 1..(kernel.n - 1) :
                  pollard_rho_draw(x, c))
    /\ WF_vars(pollard_rho_iterate)

\* ------------------------------------------------------------- properties
\* C1: once a cancel has been accepted, the persisted status is cancelled in
\* every later state: no step takes the status from cancelled to anything
\* else (the worker never overwrites cancelled).
C1_CancelledIsFinal ==
    [][job.status = "cancelled" => job'.status = "cancelled"]_vars

\* C2: while the persisted status is cancelled (a cancel has been committed)
\* no JobResult row is appended and no JobLog row of a stage other than
\* "control" is appended.
C2_NothingAppendedAfterCancel ==
    [][job.status = "cancelled" =>
          /\ results' = results
          /\ \A s \in Stages \ {"control"} : logs'[s] = logs[s]]_vars

\* The equivalence of C3: finished_at is set if and only if the status is
\* completed, failed or cancelled.
FinishedAtIffTerminal ==
    job.status # "absent" => (job.finished_at <=> job.status \in Terminal)

\* C3, for the jobs no control request was ever issued against: the same
\* equivalence after every commit of the task execution alone.
C3_FinishedAtIffTerminalUncontrolled ==
    nctl = 0 => FinishedAtIffTerminal

\* The transitions of the documented state machine (the creation of the row
\* included).
StateMachine ==
    {<<"absent", "pending">>, <<"pending", "running">>, <<"running", "paused">>,
     <<"paused", "running">>, <<"running", "completed">>,
     <<"pending", "cancelled">>, <<"running", "cancelled">>,
     <<"paused", "cancelled">>,
     <<"pending", "failed">>, <<"running", "failed">>, <<"paused", "failed">>}

\* C4: every change of the persisted status is a transition of the state
\* machine.
C4_OnlyStateMachineTransitions ==
    [][job'.status # job.status => <<job.status, job'.status>> \in StateMachine]_vars

\* C5: while the job is executed by its one task execution (no resume has
\* enqueued another), no commit lowers the persisted progress_percent.
C5_ProgressNeverDecreases ==
    [][enqueued = 1 => job'.progress_percent >= job.progress_percent]_vars

\* C6: while the persisted status is paused, every step other than the
\* commit of a control request appends no JobResult row and leaves the
\* status paused (or, the task having raised, failed): no task execution
\* goes on to record factors or a completed status.
C6_PausedUntilControl ==
    [][(job.status = "paused" /\ ~(ctl.pc = "loaded" /\ ctl'.pc = "idle")) =>
          (job'.status \in {"paused", "failed"} /\ results' = results)]_vars

\* C7: a control request whose action is no valid transition from the
\* job's persisted status is not answered with status "success".
C7_InvalidActionRejected ==
    [][(ctl.pc = "loaded" /\ ctl'.pc = "idle"
          /\ ~transition_valid(ctl.action, job.status)) =>
          response'.status # "success"]_vars

\* A task execution that has loaded the job and has not returned.
Executing(r) == runs[r].pc \notin {"idle", "done"}

\* C8: at most one task execution is executing the job.
C8_AtMostOneRun == Cardinality({r \in Runs : Executing(r)}) <= 1

\* C9: once the stream has ended, its last event is a complete event whose
\* status is the persisted status of the job.
C9_CompleteCarriesFinalStatus ==
    stream.pc = "ended" =>
        /\ stream.last_event.type = "complete"
        /\ stream.last_event.status = job.status

\* C10: once the stream has ended, every JobLog row of the job has been
\* sent on it.
C10_EveryLogDelivered ==
    stream.pc = "ended" =>
        \A id \in 1..log_count(logs) : InSeq(id, stream.sent)

RECURSIVE prime_product(_)
\* The product of the factors of the JobResult rows marked prime.
prime_product(rows) ==
    IF rows = <<>> THEN 1
    ELSE (IF Head(rows).is_prime THEN Head(rows).factor ELSE 1) * prime_product(Tail(rows))

\* The job is on a composite N >= 4.
CompositeJob == job.status # "absent" /\ ~req.malformed /\ req.n >= 4 /\ ~gmpy2_is_prime(req.n)

\* C11: when the job on a composite N is completed (finalized) and every
\* recorded Result is prime (no composite remainder is on record), the
\* product of the recorded Results is N.
C11_ProductOfResultsIsN ==
    (CompositeJob /\ job.status = "completed" /\ job.finished_at
       /\ \A i \in 1..Len(results) : results[i].is_prime)
    => prime_product(results) = req.n

\* C12: the step of a stage that records the first factor f of a composite N
\* whose cofactor N/f is prime records two Results, f and N/f.
C12_PrimeCofactorRecorded ==
    [][(CompositeJob /\ results = <<>> /\ results' # <<>>
          /\ req.n % results'[1].factor = 0
          /\ gmpy2_is_prime(req.n \div results'[1].factor))
       => (Len(results') = 2
           /\ results'[2].factor = req.n \div results'[1].factor)]_vars

\* C13: every recorded Result's factor f satisfies 1 < f < N and f divides N.
C13_FactorsAreProperDivisors ==
    \A i \in 1..Len(results) :
        /\ 1 < results[i].factor
        /\ results[i].factor < req.n
        /\ req.n % results[i].factor = 0

\* The job is on an N the primality gate reports prime.
PrimeJob == job.status # "absent" /\ ~req.malformed /\ is_prime_fast(req.n)

\* No task is queued, executing, or being controlled.
Quiescent ==
    /\ queue = 0
    /\ ctl.pc = "idle"
    /\ \A r \in Runs : runs[r].pc \in {"idle", "done"}

\* C14: on a job whose N the gate reports prime, a step never records a
\* Result and never takes a run into a factoring stage; the step that leaves
\* the gate is the run's last one and commits the job completed at
\* progress 100.
C14_PrimeGateTerminal ==
    [][PrimeJob' =>
         /\ results' = <<>>
         /\ \A r \in Runs :
               /\ runs'[r].pc \in {"idle", "pickup", "start", "prime_commit", "done"}
               /\ (runs[r].pc = "prime_commit" /\ runs'[r].pc # "prime_commit")
                     => /\ runs'[r].pc = "done"
                        /\ job'.status = "completed"
                        /\ job'.progress_percent = 100]_vars

\* C14 witness: a run on a prime N has left the gate: the job is completed at
\* progress 100 with no Result.
C14_Witness ==
    /\ PrimeJob /\ Quiescent
    /\ \E r \in Runs : runs[r].pc = "done" /\ runs[r].seen = "expired"
    /\ job.status = "completed" /\ job.progress_percent = 100 /\ results = <<>>

\* C15: a malformed n creates no Job row and enqueues no task.
C15_MalformedRejected ==
    req.malformed => (job.status = "absent" /\ enqueued = 0)

\* C16: a run in which an exception was raised ends with the job failed, and
\* a failed job has its error_message.
C16_ExceptionFails ==
    /\ \A r \in Runs : (runs[r].raised /\ runs[r].pc = "done") => job.status = "failed"
    /\ job.status = "failed" => job.error_message

\* C17: verify() succeeds on every certificate generate_certificate_simple
\* returned, as returned (no step altered).
C17_GeneratedCertificateVerifies ==
    (kernel.op = "verified" /\ ~kernel.altered) => kernel.holds

\* C18: verify() succeeds only on a certificate no step of which was altered
\* and every step of which is a small_prime or a pocklington step.
C18_OnlyTrustedStepsAccepted ==
    (kernel.op = "verified" /\ kernel.holds) =>
        /\ ~kernel.altered
        /\ \A i \in 1..Len(kernel.steps) :
              kernel.steps[i].type \in {"small_prime", "pocklington"}

\* C19: is_prime_bpsw(n) is true exactly when n is prime (n >= 2 without a
\* divisor d, 1 < d < n), for every n of the range.
C19_BpswAgreesWithReference ==
    kernel.op = "is_prime_bpsw" =>
        (kernel.holds <=> (kernel.n >= 2 /\ \A d \in 2..(kernel.n - 1) : kernel.n % d # 0))

\* C19 witness: the test has been applied to a prime above the small-prime
\* table (Miller-Rabin and the strong Lucas test ran) and accepted it.
C19_Witness ==
    /\ kernel.op = "is_prime_bpsw" /\ kernel.n = 2999 /\ kernel.holds

\* C20: for N = p * q with 2 <= p <= q, compute_y_from_x(p) is q.
C20_ComputeYReturnsCofactor ==
    kernel.op = "compute_y_from_x" => kernel.y = kernel.n \div kernel.x

\* C21: for x1 < x2 both in the region verify_decreasing_region accepts,
\* verify_inverse_relationship(x1, x2) is true.
C21_InverseBelowCriticalPoint ==
    (/\ kernel.op = "verify_inverse_relationship"
     /\ 1 <= kernel.x /\ kernel.x < kernel.x2
     /\ verify_decreasing_region(kernel.n, kernel.x)
     /\ verify_decreasing_region(kernel.n, kernel.x2))
    => kernel.holds

\* The number of the pipeline stage a task execution is in: 0 before stage 1,
\* 8 after the last stage.
stage_number(pc) ==
    CASE pc \in {"stage1", "trial"} -> 1
      [] pc \in {"stage2", "rho"} -> 2
      [] pc \in {"stage3", "shor_check", "shor_attempt"} -> 3
      [] pc \in {"stage4", "ecm_callback", "ecm_run"} -> 4
      [] pc = "stage5" -> 5
      [] pc \in {"stage6", "cado", "cado_run"} -> 6
      [] pc \in {"stage7", "sieve"} -> 7
      [] pc \in {"finalize", "finalize_commit", "fail", "done"} -> 8
      [] OTHER -> 0

\* The policy flag of stage k as the worker reads it: use_shor_classical is
\* no field of AlgorithmPolicy and reads as its default True, stage 6 has no
\* flag, the sieve's flag is use_equation.
policy_flag(k, rq) ==
    CASE k = 1 -> rq.policy.use_trial_division
      [] k = 2 -> rq.policy.use_pollard_rho
      [] k \in {4, 5} -> rq.policy.use_ecm
      [] k = 7 -> rq.use_equation
      [] OTHER -> TRUE

C23_SubprocessEndsBeforeCancelledReturn ==
    \A r \in Runs :
        (runs[r].pc = "done" /\ job.status = "cancelled")
        => runs[r].subprocess # "running"

\* N has a prime factor p with lo <= p <= min(hi, isqrt(N)).
prime_factor_within(n, lo, hi) ==
    \E p \in lo..Min2(hi, isqrt(n)) : gmpy2_is_prime(p) /\ n % p = 0

\* C24: when the sieve stage has run over the bounds [lo, hi] to its end
\* (no cancel observed, no exception) and N has a prime factor p with
\* lo <= p <= min(hi, isqrt(N)), the stage has recorded a prime factor of N.
C24_SieveFindsFactorInBounds ==
    [][\A r \in Runs :
         (/\ runs[r].pc \in {"stage7", "sieve"}
          /\ runs'[r].pc = "finalize"
          /\ prime_factor_within(req.n, job.lower_bound, job.upper_bound))
         => \E i \in 1..Len(results') :
               /\ results'[i].algorithm = "equation_search"
               /\ results'[i].is_prime
               /\ req.n % results'[i].factor = 0]_vars

\* C25: a call resumed from a checkpoint for the same n works with the
\* checkpoint's B1 and B2, runs only the curves curves_completed + 1 ..
\* curves_total of the checkpoint, each with a sigma that is not in the
\* checkpoint's sigma_values and not drawn twice, and every checkpoint it
\* emits has curves_completed = |sigma_values| <= curves_total.
C25_ResumeContinuesCheckpoint ==
    kernel.op \in {"ecm_factor_enhanced", "ecm_factor_enhanced_returned"} =>
        LET e == kernel.ecm
            cp == e.resume_from
        IN /\ e.B1 = cp.B1 /\ e.B2 = cp.B2
           /\ \A i \in 1..Len(e.drawn) :
                 /\ e.drawn[i].curve \in (cp.curves_completed + 1)..cp.curves_total
                 /\ e.drawn[i].sigma \notin cp.sigma_values
                 /\ \A j \in 1..Len(e.drawn) :
                       e.drawn[i].sigma = e.drawn[j].sigma => i = j
           /\ \A i \in 1..Len(e.emitted) :
                 /\ e.emitted[i].curves_completed = Cardinality(e.emitted[i].sigma_values)
                 /\ e.emitted[i].curves_completed <= e.emitted[i].curves_total

\* C26: for n >= 2 and every limit, trial_division_with_wheel(n, limit) is
\* the smallest prime p <= min(limit, isqrt(n)) that divides n, and None
\* exactly when there is no such prime.
C26_TrialDivisionSmallestPrime ==
    kernel.op = "trial_division_with_wheel" =>
        LET bound == IF kernel.x = None THEN isqrt(kernel.n)
                     ELSE Min2(kernel.x, isqrt(kernel.n))
            divisors == {p \in 2..bound : gmpy2_is_prime(p) /\ kernel.n % p = 0}
        IN IF divisors = {} THEN kernel.y = None
           ELSE /\ kernel.y \in divisors
                /\ \A p \in divisors : kernel.y <= p

\* C27: for an even composite n, shor_classical_one_shot(n, B) returns a
\* non-trivial factor of n whatever base a in [2, n - 2] it chooses.
C27_ShorFactorsEvenComposite ==
    (kernel.op = "shor_classical_one_shot" /\ kernel.n % 2 = 0) =>
        /\ kernel.y # None
        /\ 1 < kernel.y /\ kernel.y < kernel.n
        /\ kernel.n % kernel.y = 0

\* The call of pollard_rho is in progress.
RhoRunning == kernel.op \in {"pollard_rho_draw", "pollard_rho_loop"}

\* C28: pollard_rho(n, max_iterations), n >= 4, returns whatever x0 and c
\* it draws; the budget after k restarts is max_iterations halved k times,
\* the iterations of all restarts together are at most 2 * max_iterations,
\* and the result is None or a d with 1 < d < n that divides n, 2 for an
\* even n.
C28_PollardRhoTerminates ==
    /\ [](RhoRunning =>
            /\ kernel.rho.total <= 2 * kernel.rho.max_iterations
            /\ kernel.rho.budget * pow2(kernel.rho.restarts) <= kernel.rho.max_iterations)
    /\ [](kernel.op = "pollard_rho_returned" =>
            /\ kernel.rho.total <= 2 * kernel.rho.max_iterations
            /\ kernel.n % 2 = 0 => kernel.y = 2
            /\ \/ kernel.y = None
               \/ /\ 1 < kernel.y /\ kernel.y < kernel.n
                  /\ kernel.n % kernel.y = 0)
    /\ (RhoRunning ~> kernel.op = "pollard_rho_returned")

\* C28 witness: a call has returned a factor after a restart.
C28_Witness ==
    /\ kernel.op = "pollard_rho_returned"
    /\ kernel.rho.restarts > 0
    /\ kernel.y # None
    /\ kernel.rho.total > 1

\* The task executions of the job are over: none is queued, none is running.
RunEnded ==
    /\ job.status # "absent"
    /\ queue = 0
    /\ \A r \in Runs : runs[r].pc \in {"idle", "done"}
    /\ \E r \in Runs : runs[r].pc = "done"

\* C29: with no pause issued and a fair worker pool, a job that is pending or
\* running eventually has a terminal status, however cancel requests
\* interleave with the run, and once the run has ended the job is neither
\* pending nor running.
C29_JobReachesTerminalStatus ==
    /\ [](RunEnded => job.status \notin {"pending", "running"})
    /\ (job.status \in {"pending", "running"} ~> job.status \in Terminal)

\* C29 witness: a cancel was committed while the run was executing, the run
\* has ended and the job is cancelled.
C29_Witness ==
    /\ RunEnded
    /\ job.started_at
    /\ job.status = "cancelled"
    /\ response.action = "cancel" /\ response.seen = "running"

====
